---------------------------- MODULE Spec2Model ----------------------------
(***************************************************************************)
(* A model of pki-rs: typed X.509 extension parsing, certificate period    *)
(* validation, signature-verification dispatch and the linear chain        *)
(* path-validation walk of CertificateChain::validate_path.                *)
(*                                                                         *)
(* The ASN.1 codec and the cryptographic primitives are external crates.   *)
(* They are modelled by what the repository's code relies on: a payload    *)
(* decodes under a schema iff it is a well-formed value of that schema, a  *)
(* signature verifies under a key iff that key made it over the bytes      *)
(* verified.                                                               *)
(***************************************************************************)
EXTENDS Integers, Sequences, FiniteSets, TLC

VARIABLES
    op,                     \* which operation this behaviour exercises
    pc,                     \* position inside the operation
    now,                    \* SystemTime::now()
    x509,                   \* input of Certificate::try_from (the raw x509_cert::Certificate)
    constructed,            \* outcome of Certificate::try_from
    self_cert,              \* `self` of Certificate::validate_period / verify_signature
    arg_cert,               \* the `cert` argument of verify_signature
    trust_anchor,           \* validate_path's trust anchor
    chain,                  \* the CertificateChain: [intermediates, leaf]
    pos,                    \* validate_path: index of `current` in the walk sequence
    path_len_constraints,   \* validate_path: Vec<Option<u8>>
    result,                 \* outcome of the operation
    trace,                  \* the checks and steps performed so far, in order
    builder                 \* the CertificateChainBuilder: its state type and fields

vars == <<op, pc, now, x509, constructed, self_cert, arg_cert, trust_anchor,
          chain, pos, path_len_constraints, result, trace, builder>>

-----------------------------------------------------------------------------
(* Bounds of the model.                                                    *)

\* largest number of raw extensions on a certificate under construction
MaxExtensions == 3
\* largest number of intermediates of a chain
MaxIntermediates == 1
\* time stamps range over 0..MaxTime
MaxTime == 3

-----------------------------------------------------------------------------
(* Option<T>: None is the empty tuple, Some(v) the one-element tuple.      *)

None == << >>
Some(v) == << v >>
IsSome(o) == o # << >>
Unwrap(o) == o[1]

-----------------------------------------------------------------------------
(* Extension model (certificate/extension.rs).                             *)

\* the seven OIDs Extension::try_from recognizes
RecognizedOIDs ==
    {"BasicConstraints", "KeyUsage", "ExtendedKeyUsage", "SubjectAltName",
     "AuthorityKeyIdentifier", "SubjectKeyIdentifier", "CertificatePolicies"}

\* certificate::Error and the wrapped codec errors, as far as construction goes
NoError == [kind |-> "none", oid |-> "none"]
Asn1Error == [kind |-> "Asn1", oid |-> "none"]
UnsupportedExtension(oid) == [kind |-> "UnsupportedExtension", oid |-> oid]

\* T::from_der(bytes) for the schema T named by `schema`: the payload decodes
\* iff it is a well-formed value of that very schema
from_der(schema, bytes) ==
    IF bytes.kind = schema
    THEN [ok |-> TRUE, error |-> NoError, value |-> bytes]
    ELSE [ok |-> FALSE, error |-> Asn1Error, value |-> bytes]

\* impl TryFrom<&x509_cert::ext::Extension> for Extension
ExtensionTryFrom(value) ==
    LET oid == value.extn_id
        bytes == value.extn_value
    IN  IF oid \in RecognizedOIDs
        THEN from_der(oid, bytes)
        ELSE [ok |-> FALSE, error |-> UnsupportedExtension(oid), value |-> bytes]

\* the filter_map closure of Certificate::try_from applied to one raw entry:
\* "keep" (Some(Ok)), "drop" (None) or "fail" (Some(Err))
FilterMapExtension(ext) ==
    LET r == ExtensionTryFrom(ext)
    IN  IF r.ok THEN [act |-> "keep", error |-> NoError, value |-> r.value]
        ELSE IF ~ext.critical THEN [act |-> "drop", error |-> NoError, value |-> r.value]
        ELSE [act |-> "fail", error |-> r.error, value |-> r.value]

\* .filter_map(..).collect::<Result<Vec<_>, _>>(): the entries kept, in order,
\* or the first error
RECURSIVE CollectExtensions(_, _)
CollectExtensions(exts, acc) ==
    IF exts = << >>
    THEN [ok |-> TRUE, error |-> NoError, value |-> acc]
    ELSE LET f == FilterMapExtension(Head(exts))
         IN  CASE f.act = "keep" -> CollectExtensions(Tail(exts), Append(acc, f.value))
               [] f.act = "drop" -> CollectExtensions(Tail(exts), acc)
               [] OTHER -> [ok |-> FALSE, error |-> f.error, value |-> << >>]

\* impl TryFrom<x509_cert::Certificate> for Certificate
CertificateTryFrom(cert) ==
    LET ext == CollectExtensions(cert.extensions, << >>)
    IN  IF ext.ok
        THEN [ok |-> TRUE, error |-> NoError,
              value |-> [inner |-> cert, parsed_extensions |-> ext.value]]
        ELSE [ok |-> FALSE, error |-> ext.error,
              value |-> [inner |-> cert, parsed_extensions |-> << >>]]

\* iter().find_map(..) of the typed getters: the first entry of the kind
RECURSIVE find_map(_, _)
find_map(exts, kind) ==
    IF exts = << >> THEN None
    ELSE IF Head(exts).kind = kind THEN Some(Head(exts))
    ELSE find_map(Tail(exts), kind)

get_basic_constraints(cert) == find_map(cert.parsed_extensions, "BasicConstraints")
get_key_usage(cert) == find_map(cert.parsed_extensions, "KeyUsage")
get_extended_key_usage(cert) == find_map(cert.parsed_extensions, "ExtendedKeyUsage")
get_subject_alt_name(cert) == find_map(cert.parsed_extensions, "SubjectAltName")
get_authority_key_identifier(cert) ==
    find_map(cert.parsed_extensions, "AuthorityKeyIdentifier")
get_subject_key_identifier(cert) ==
    find_map(cert.parsed_extensions, "SubjectKeyIdentifier")
get_certificate_policies(cert) == find_map(cert.parsed_extensions, "CertificatePolicies")

-----------------------------------------------------------------------------
(* Decoded extension payloads (x509_cert::ext::pkix) and raw entries.      *)

BasicConstraints(ca, path_len_constraint) ==
    [kind |-> "BasicConstraints", ca |-> ca, path_len_constraint |-> path_len_constraint]
KeyUsage(bits) == [kind |-> "KeyUsage", bits |-> bits]
AuthorityKeyIdentifier(key_identifier, authority_cert_serial_number) ==
    [kind |-> "AuthorityKeyIdentifier", key_identifier |-> key_identifier,
     authority_cert_serial_number |-> authority_cert_serial_number]
SubjectKeyIdentifier(id) == [kind |-> "SubjectKeyIdentifier", id |-> id]
\* bytes that are no well-formed value of any schema
Malformed == [kind |-> "Malformed"]

\* x509_cert::ext::Extension
RawExtension(extn_id, critical, extn_value) ==
    [extn_id |-> extn_id, critical |-> critical, extn_value |-> extn_value]

\* spki::AlgorithmIdentifier
AlgorithmIdentifier(oid, parameters) == [oid |-> oid, parameters |-> parameters]

\* the object identifiers the verification code names
ED_25519_OID == "1.3.101.112"
ECDSA_SHA256_OID == "1.2.840.10045.4.3.2"
ECDSA_SHA384_OID == "1.2.840.10045.4.3.3"
ALGORITHM_OID == "1.2.840.10045.2.1"
NistP256_OID == "1.2.840.10045.3.1.7"
NistP384_OID == "1.3.132.0.34"
\* an identifier outside the supported set (sha256WithRSAEncryption)
RSA_SHA256_OID == "1.2.840.113549.1.1.11"

\* x509_cert::Certificate, as far as the repository reads it.  tbs_der stands
\* for tbs_certificate.to_der(); a name, a serial number and a key are
\* identified by a number.
X509Certificate(subject, issuer, serial_number, validity, spki_algorithm, subject_public_key, signature_algorithm, signature, tbs_der, extensions) ==
    [subject |-> subject, issuer |-> issuer, serial_number |-> serial_number,
     validity |-> validity,
     subject_public_key_info |->
        [algorithm |-> spki_algorithm, subject_public_key |-> subject_public_key],
     signature_algorithm |-> signature_algorithm, signature |-> signature,
     tbs_der |-> tbs_der, extensions |-> extensions]

Validity(not_before, not_after) == [not_before |-> not_before, not_after |-> not_after]
\* key bytes: their encoding and the key pair they belong to
PublicKey(encoding, id) == [encoding |-> encoding, id |-> id]
\* signature bytes: their encoding, the key pair that made them, the bytes signed
SignatureBytes(encoding, signer, message) ==
    [encoding |-> encoding, signer |-> signer, message |-> message]

-----------------------------------------------------------------------------
(* Period validator (certificate/validate.rs).                             *)

\* validate_period with the boundary instant of notAfter taken as expired
validate_periodExpiresAtNotAfter(cert, t) ==
    LET not_before == cert.inner.validity.not_before
        not_after == cert.inner.validity.not_after
    IN  IF not_before > t THEN "CertificateImmature"
        ELSE IF not_after <= t THEN "CertificateExpired"
        ELSE "Ok"

\* Certificate::validate_period, with SystemTime::now() = t
validate_period(cert, t) ==
    LET not_before == cert.inner.validity.not_before
        not_after == cert.inner.validity.not_after
    IN  IF not_before > t THEN "CertificateImmature"
        ELSE IF not_after < t THEN "CertificateExpired"
        ELSE "Ok"

-----------------------------------------------------------------------------
(* Signature verifier (signature/mod.rs, ed25519.rs, ecdsa.rs,             *)
(* certificate/verify.rs).  Every operator returns the outcome and, where  *)
(* the order of the work matters, the steps performed.                     *)

\* the crate's error values a verification can end with (error.rs,
\* signature/mod.rs): the From conversions applied by `?`
OidUnknownError == "Signature(Pkcs8(PublicKey(OidUnknown)))"
ParametersMissingError == "Signature(Pkcs8(PublicKey(AlgorithmParametersMissing)))"
KeyMalformedError == "Signature(Pkcs8(PublicKey(KeyMalformed)))"
SignatureError == "Signature(Signature)"

\* spki AlgorithmIdentifier::assert_algorithm_oid
assert_algorithm_oid(alg, expected_oid) ==
    IF alg.oid = expected_oid THEN "Ok" ELSE OidUnknownError

\* spki AlgorithmIdentifier::assert_oids: the algorithm, then its parameters
assert_oids(alg, algorithm, parameters) ==
    IF alg.oid # algorithm THEN OidUnknownError
    ELSE IF ~IsSome(alg.parameters) THEN ParametersMissingError
    ELSE IF Unwrap(alg.parameters) # parameters THEN OidUnknownError
    ELSE "Ok"

\* impl TryFrom<&Certificate> for ed25519::VerifyingKey
Ed25519VerifyingKeyTryFrom(cert) ==
    LET spki == cert.inner.subject_public_key_info
        a == assert_algorithm_oid(spki.algorithm, ED_25519_OID)
    IN  IF a # "Ok" THEN [ok |-> FALSE, error |-> a, value |-> spki.subject_public_key]
        ELSE IF spki.subject_public_key.encoding = "ed25519-invalid-point"
        THEN [ok |-> FALSE, error |-> SignatureError, value |-> spki.subject_public_key]
        ELSE IF spki.subject_public_key.encoding # "ed25519"
        THEN [ok |-> FALSE, error |-> KeyMalformedError, value |-> spki.subject_public_key]
        ELSE [ok |-> TRUE, error |-> "Ok", value |-> spki.subject_public_key]

\* impl TryFrom<&Certificate> for ed25519::Signature
Ed25519SignatureTryFrom(cert) ==
    LET a == assert_algorithm_oid(cert.inner.signature_algorithm, ED_25519_OID)
    IN  IF a # "Ok" THEN [ok |-> FALSE, error |-> a, value |-> cert.inner.signature]
        ELSE IF cert.inner.signature.encoding # "ed25519"
        THEN [ok |-> FALSE, error |-> SignatureError, value |-> cert.inner.signature]
        ELSE [ok |-> TRUE, error |-> "Ok", value |-> cert.inner.signature]

\* the encodings of a curve's keys (SEC1) and signatures (DER)
Sec1Of(curve_oid) == IF curve_oid = NistP256_OID THEN "sec1-p256" ELSE "sec1-p384"
DerOf(curve_oid) == IF curve_oid = NistP256_OID THEN "der-p256" ELSE "der-p384"

\* impl<C> TryFrom<&Certificate> for ecdsa::VerifyingKey<C>, C::OID = curve_oid
EcdsaVerifyingKeyTryFrom(cert, curve_oid) ==
    LET key == cert.inner.subject_public_key_info.subject_public_key
        a == assert_oids(cert.inner.signature_algorithm, ALGORITHM_OID, curve_oid)
    IN  IF a # "Ok" THEN [ok |-> FALSE, error |-> a, value |-> key]
        ELSE IF key.encoding # Sec1Of(curve_oid)
        THEN [ok |-> FALSE, error |-> SignatureError, value |-> key]
        ELSE [ok |-> TRUE, error |-> "Ok", value |-> key]

\* impl<C> TryFrom<&Certificate> for ecdsa::Signature<C>, C::OID = curve_oid
EcdsaSignatureTryFrom(cert, curve_oid) ==
    LET a == assert_oids(cert.inner.signature_algorithm, ALGORITHM_OID, curve_oid)
    IN  IF a # "Ok" THEN [ok |-> FALSE, error |-> a, value |-> cert.inner.signature]
        ELSE IF cert.inner.signature.encoding # DerOf(curve_oid)
        THEN [ok |-> FALSE, error |-> SignatureError, value |-> cert.inner.signature]
        ELSE [ok |-> TRUE, error |-> "Ok", value |-> cert.inner.signature]

\* SignatureVerifier::verify: the key accepts exactly the signatures its own
\* key pair made over the data
verify(key, data, signature) ==
    IF signature.signer = key.id /\ signature.message = data
    THEN "Ok" ELSE SignatureError

\* verify_certificate with the outcome of self.verify dropped
verify_certificateDropsOutcome(key, signature, cert) ==
    IF ~signature.ok
    THEN [result |-> signature.error, steps |-> <<"encode_tbs", "decode_signature">>]
    ELSE [result |-> "Ok", steps |-> <<"encode_tbs", "decode_signature", "verify">>]

\* SignatureVerifier::verify_certificate; signature is S::try_from(cert)
verify_certificate(key, signature, cert) ==
    IF ~signature.ok
    THEN [result |-> signature.error, steps |-> <<"encode_tbs", "decode_signature">>]
    ELSE [result |-> verify(key, cert.inner.tbs_der, signature.value),
          steps |-> <<"encode_tbs", "decode_signature", "verify">>]

\* one arm of verify_signature's match: key extraction, then verify_certificate
Adapter(key, signature, cert) ==
    IF ~key.ok
    THEN [result |-> key.error, steps |-> <<"extract_key">>]
    ELSE LET v == verify_certificate(key.value, signature, cert)
         IN  [result |-> v.result, steps |-> <<"extract_key">> \o v.steps]

\* the match on algo.oid of Certificate::verify_signature
Dispatch(self, cert, algo) ==
    CASE algo.oid = ED_25519_OID ->
            Adapter(Ed25519VerifyingKeyTryFrom(self), Ed25519SignatureTryFrom(cert), cert)
      [] algo.oid = ECDSA_SHA256_OID ->
            Adapter(EcdsaVerifyingKeyTryFrom(self, NistP256_OID),
                    EcdsaSignatureTryFrom(cert, NistP256_OID), cert)
      [] algo.oid = ECDSA_SHA384_OID ->
            Adapter(EcdsaVerifyingKeyTryFrom(self, NistP384_OID),
                    EcdsaSignatureTryFrom(cert, NistP384_OID), cert)
      [] OTHER -> [result |-> "AlgorithmUnsupported", steps |-> << >>]

\* verify_signature comparing the algorithm OIDs only, not the parameters
verify_signatureComparesOidOnly(self, cert) ==
    LET algo == self.inner.subject_public_key_info.algorithm
    IN  IF algo.oid # cert.inner.signature_algorithm.oid
        THEN [result |-> "AlgorithmMismatch", steps |-> <<"compare_algorithm">>]
        ELSE LET d == Dispatch(self, cert, algo)
             IN  [result |-> d.result, steps |-> <<"compare_algorithm">> \o d.steps]

\* Certificate::verify_signature
verify_signature(self, cert) ==
    LET algo == self.inner.subject_public_key_info.algorithm
    IN  IF algo # cert.inner.signature_algorithm
        THEN [result |-> "AlgorithmMismatch", steps |-> <<"compare_algorithm">>]
        ELSE LET d == Dispatch(self, cert, algo)
             IN  [result |-> d.result, steps |-> <<"compare_algorithm">> \o d.steps]

-----------------------------------------------------------------------------
(* Inputs and the three single-call operations.                            *)

\* a self-signed Ed25519 certificate without extensions
TemplateX509 ==
    X509Certificate(0, 0, 0, Validity(0, 0),
                    AlgorithmIdentifier(ED_25519_OID, None), PublicKey("ed25519", 0),
                    AlgorithmIdentifier(ED_25519_OID, None),
                    SignatureBytes("ed25519", 0, 0), 0, << >>)
TemplateCertificate == CertificateTryFrom(TemplateX509).value
TemplateChain == [intermediates |-> << >>, leaf |-> TemplateCertificate]
NotConstructed ==
    [ok |-> FALSE, error |-> NoError,
     value |-> [inner |-> TemplateX509, parsed_extensions |-> << >>]]

\* CertificateChain::new
CertificateChainNew(intermediates, leaf) == [intermediates |-> intermediates, leaf |-> leaf]

\* CertificateChainBuilder::default(): the builder in state WantsLeaf, which
\* holds nothing.  `state` is the type parameter of the builder; a method
\* exists on one state type only and takes the builder by value.
NewBuilder == [state |-> "WantsLeaf", leaf |-> None, intermediates |-> << >>]

set_leaf(self, cert) ==
    [state |-> "WantsIntermediates", leaf |-> Some(cert), intermediates |-> << >>]

set_intermediates(self, certs) ==
    [state |-> "Optional", leaf |-> self.leaf, intermediates |-> certs]

\* add_intermediates with the new certificates put in front
add_intermediatesPrepends(self, certs) ==
    [self EXCEPT !.intermediates = certs \o @]

\* Vec::extend: the new certificates go behind those already held
add_intermediates(self, certs) ==
    [self EXCEPT !.intermediates = @ \o certs]

build(self) ==
    [result |-> "Ok", chain |-> CertificateChainNew(self.intermediates, Unwrap(self.leaf))]

\* the steps of one node, as trace entries
Steps(node, steps) == [i \in 1..Len(steps) |-> [step |-> steps[i], node |-> node]]

\* all sequences over S of length at most n
SeqsUpTo(S, n) == UNION {[1..k -> S] : k \in 0..n}

\* raw extension entries: recognized and unrecognized OIDs, critical or not,
\* payloads that decode and payloads that do not, two entries of one kind
RawExtensionPool ==
    {RawExtension("BasicConstraints", TRUE, BasicConstraints(TRUE, None)),
     RawExtension("BasicConstraints", FALSE, BasicConstraints(FALSE, Some(0))),
     RawExtension("BasicConstraints", TRUE, Malformed),
     RawExtension("KeyUsage", TRUE, KeyUsage({"KeyCertSign"})),
     RawExtension("SubjectKeyIdentifier", FALSE, SubjectKeyIdentifier(0)),
     RawExtension("SubjectKeyIdentifier", FALSE, Malformed),
     RawExtension("NameConstraints", TRUE, Malformed),
     RawExtension("PolicyMappings", TRUE, Malformed),
     RawExtension("PolicyMappings", FALSE, Malformed)}

InitConstruct ==
    /\ op = "construct"
    /\ pc = "start"
    /\ x509 \in {[TemplateX509 EXCEPT !.extensions = e] :
                    e \in SeqsUpTo(RawExtensionPool, MaxExtensions)}
    /\ constructed = NotConstructed
    /\ now = 0
    /\ self_cert = TemplateCertificate
    /\ arg_cert = TemplateCertificate
    /\ builder = NewBuilder
    /\ trust_anchor = TemplateCertificate
    /\ chain = TemplateChain
    /\ pos = 0
    /\ path_len_constraints = << >>
    /\ result = "none"
    /\ trace = << >>

\* Certificate::try_from(x509)
Construct ==
    /\ op = "construct"
    /\ pc = "start"
    /\ constructed' = CertificateTryFrom(x509)
    /\ pc' = "done"
    /\ UNCHANGED <<op, builder, now, x509, self_cert, arg_cert, trust_anchor, chain, pos,
                   path_len_constraints, result, trace>>

NextConstruct == Construct
SpecConstruct == InitConstruct /\ [][NextConstruct]_vars

InitPeriod ==
    /\ op = "period"
    /\ pc = "start"
    /\ now \in 0..MaxTime
    /\ \E nb \in 0..MaxTime, na \in 0..MaxTime :
          self_cert = CertificateTryFrom(
              [TemplateX509 EXCEPT !.validity = Validity(nb, na)]).value
    /\ x509 = TemplateX509
    /\ constructed = NotConstructed
    /\ arg_cert = TemplateCertificate
    /\ builder = NewBuilder
    /\ trust_anchor = TemplateCertificate
    /\ chain = TemplateChain
    /\ pos = 0
    /\ path_len_constraints = << >>
    /\ result = "none"
    /\ trace = << >>

\* self_cert.validate_period()
ValidatePeriod ==
    /\ op = "period"
    /\ pc = "start"
    /\ result' = validate_period(self_cert, now)
    /\ trace' = Steps(0, <<"validate_period">>)
    /\ pc' = "done"
    /\ UNCHANGED <<op, builder, now, x509, constructed, self_cert, arg_cert, trust_anchor,
                   chain, pos, path_len_constraints>>

NextPeriod == ValidatePeriod
SpecPeriod == InitPeriod /\ [][NextPeriod]_vars

\* algorithm identifiers of issuers and subjects: the three supported
\* schemes, id-ecPublicKey with a curve, and an unsupported algorithm
VerifyAlgorithms ==
    {AlgorithmIdentifier(ED_25519_OID, None),
     AlgorithmIdentifier(ECDSA_SHA256_OID, None),
     AlgorithmIdentifier(ECDSA_SHA384_OID, None),
     AlgorithmIdentifier(ALGORITHM_OID, Some(NistP256_OID)),
     AlgorithmIdentifier(ALGORITHM_OID, Some(NistP384_OID)),
     AlgorithmIdentifier(RSA_SHA256_OID, None)}
KeyEncodings == {"ed25519", "ed25519-invalid-point", "sec1-p256", "sec1-p384", "malformed"}
SignatureEncodings == {"ed25519", "der-p256", "der-p384", "malformed"}

\* issuers: key pair 1, any SPKI algorithm, key encoding and own signature algorithm
VerifyIssuers ==
    {CertificateTryFrom(
        [TemplateX509 EXCEPT !.subject_public_key_info = [algorithm |-> a,
                                 subject_public_key |-> PublicKey(e, 1)],
                             !.signature_algorithm = s]).value :
        a \in VerifyAlgorithms, e \in KeyEncodings,
        s \in {AlgorithmIdentifier(ED_25519_OID, None),
               AlgorithmIdentifier(ECDSA_SHA256_OID, None),
               AlgorithmIdentifier(ALGORITHM_OID, Some(NistP256_OID)),
               AlgorithmIdentifier(ALGORITHM_OID, Some(NistP384_OID))}}

\* subjects: TBS bytes 2, signed by key pair 1 or 3, over TBS bytes 2 or 4
VerifySubjects ==
    {CertificateTryFrom(
        [TemplateX509 EXCEPT !.subject = 2, !.serial_number = 2, !.tbs_der = 2,
                             !.signature_algorithm = a,
                             !.signature = SignatureBytes(e, k, m)]).value :
        a \in VerifyAlgorithms, e \in SignatureEncodings, k \in {1, 3}, m \in {2, 4}}

InitVerify ==
    /\ op = "verify"
    /\ pc = "start"
    /\ self_cert \in VerifyIssuers
    /\ arg_cert \in VerifySubjects
    /\ builder = NewBuilder
    /\ now = 0
    /\ x509 = TemplateX509
    /\ constructed = NotConstructed
    /\ trust_anchor = TemplateCertificate
    /\ chain = TemplateChain
    /\ pos = 0
    /\ path_len_constraints = << >>
    /\ result = "none"
    /\ trace = << >>

\* self_cert.verify_signature(&arg_cert)
VerifySignature ==
    /\ op = "verify"
    /\ pc = "start"
    /\ LET v == verify_signature(self_cert, arg_cert)
       IN  /\ result' = v.result
           /\ trace' = Steps(0, v.steps)
    /\ pc' = "done"
    /\ UNCHANGED <<op, builder, now, x509, constructed, self_cert, arg_cert, trust_anchor,
                   chain, pos, path_len_constraints>>

NextVerify == VerifySignature
SpecVerify == InitVerify /\ [][NextVerify]_vars

-----------------------------------------------------------------------------
(* Path validator (certificate/validate.rs).                               *)

\* CertificateChain::iter: the intermediates in order, then the leaf
ChainIter(c) == c.intermediates \o <<c.leaf>>

\* iter::once(trust_anchor).chain(self.iter())
WalkSequence == <<trust_anchor>> \o ChainIter(chain)

\* step 1.2.5 with the serial-number sub-check left out
AuthorityKeyIdentifierMismatchKeyIdOnly(current, next) ==
    LET aki == get_authority_key_identifier(next)
        ski == get_subject_key_identifier(current)
    IN  /\ IsSome(aki)
        /\ IsSome(Unwrap(aki).key_identifier)
        /\ IsSome(ski)
        /\ Unwrap(Unwrap(aki).key_identifier) # Unwrap(ski).id

\* step 1.2.5: the key-identifier and serial-number linkage of a pair
AuthorityKeyIdentifierMismatch(current, next) ==
    LET aki == get_authority_key_identifier(next)
        ski == get_subject_key_identifier(current)
    IN  /\ IsSome(aki)
        /\ \/ /\ IsSome(Unwrap(aki).key_identifier)
              /\ IsSome(ski)
              /\ Unwrap(Unwrap(aki).key_identifier) # Unwrap(ski).id
           \/ /\ IsSome(Unwrap(aki).authority_cert_serial_number)
              /\ Unwrap(Unwrap(aki).authority_cert_serial_number) #
                    current.inner.serial_number

\* the pair checks with step 1.2.4, the name linkage, left out
PairChecksWithoutNameLinkage(current, next) ==
    LET bc == get_basic_constraints(current)
        ku == get_key_usage(current)
        push == IF IsSome(bc) THEN <<Unwrap(bc).path_len_constraint>> ELSE << >>
    IN  IF IsSome(bc) /\ ~Unwrap(bc).ca
        THEN [result |-> "BasicConstraintsViolation", push |-> << >>,
              steps |-> <<"basic_constraints">>]
        ELSE IF IsSome(ku) /\ "KeyCertSign" \notin Unwrap(ku).bits
        THEN [result |-> "KeyUsageViolation", push |-> push,
              steps |-> <<"basic_constraints", "key_usage">>]
        ELSE IF AuthorityKeyIdentifierMismatch(current, next)
        THEN [result |-> "AuthorityKeyIdentifierMismatch", push |-> push,
              steps |-> <<"basic_constraints", "key_usage", "key_identifier">>]
        ELSE LET v == verify_signature(current, next)
             IN  [result |-> v.result, push |-> push,
                  steps |-> <<"basic_constraints", "key_usage", "key_identifier">>
                            \o v.steps]

\* the pair checks with step 1.2.3, the key usage, left out
PairChecksWithoutKeyUsage(current, next) ==
    LET bc == get_basic_constraints(current)
        push == IF IsSome(bc) THEN <<Unwrap(bc).path_len_constraint>> ELSE << >>
    IN  IF IsSome(bc) /\ ~Unwrap(bc).ca
        THEN [result |-> "BasicConstraintsViolation", push |-> << >>,
              steps |-> <<"basic_constraints">>]
        ELSE IF current.inner.subject # next.inner.issuer
        THEN [result |-> "IssuerSubjectMismatch", push |-> push,
              steps |-> <<"basic_constraints", "key_usage", "name_linkage">>]
        ELSE IF AuthorityKeyIdentifierMismatch(current, next)
        THEN [result |-> "AuthorityKeyIdentifierMismatch", push |-> push,
              steps |-> <<"basic_constraints", "key_usage", "name_linkage",
                          "key_identifier">>]
        ELSE LET v == verify_signature(current, next)
             IN  [result |-> v.result, push |-> push,
                  steps |-> <<"basic_constraints", "key_usage", "name_linkage",
                              "key_identifier">> \o v.steps]

\* steps 1.2.1 to 1.2.6 for the pair (current, next): the outcome, what is
\* pushed on path_len_constraints, and the checks control reached
PairChecks(current, next) ==
    LET bc == get_basic_constraints(current)
        ku == get_key_usage(current)
        push == IF IsSome(bc) THEN <<Unwrap(bc).path_len_constraint>> ELSE << >>
    IN  IF IsSome(bc) /\ ~Unwrap(bc).ca
        THEN [result |-> "BasicConstraintsViolation", push |-> << >>,
              steps |-> <<"basic_constraints">>]
        ELSE IF IsSome(ku) /\ "KeyCertSign" \notin Unwrap(ku).bits
        THEN [result |-> "KeyUsageViolation", push |-> push,
              steps |-> <<"basic_constraints", "key_usage">>]
        ELSE IF current.inner.subject # next.inner.issuer
        THEN [result |-> "IssuerSubjectMismatch", push |-> push,
              steps |-> <<"basic_constraints", "key_usage", "name_linkage">>]
        ELSE IF AuthorityKeyIdentifierMismatch(current, next)
        THEN [result |-> "AuthorityKeyIdentifierMismatch", push |-> push,
              steps |-> <<"basic_constraints", "key_usage", "name_linkage",
                          "key_identifier">>]
        ELSE LET v == verify_signature(current, next)
             IN  [result |-> v.result, push |-> push,
                  steps |-> <<"basic_constraints", "key_usage", "name_linkage",
                              "key_identifier">> \o v.steps]

\* the final pass without the `- 1`: the leaf is counted as a CA below
PathLenResultCountsLeaf(constraints) ==
    LET path_len == Len(constraints)
    IN  IF \E i \in 0..(Len(constraints) - 1) :
              /\ IsSome(constraints[i + 1])
              /\ path_len - i > Unwrap(constraints[i + 1])
        THEN "BasicConstraintsViolation"
        ELSE "Ok"

\* step 2, the loop over the recorded constraints; entry i of the vector is
\* path_len_constraints[i + 1].  With no constraint recorded the subtraction
\* has wrapped, the loop has no iteration and path_len is never read.
PathLenResult(constraints) ==
    LET path_len == Len(constraints) - 1
    IN  IF \E i \in 0..(Len(constraints) - 1) :
              /\ IsSome(constraints[i + 1])
              /\ path_len - i > Unwrap(constraints[i + 1])
        THEN "BasicConstraintsViolation"
        ELSE "Ok"

\* one iteration of the while loop of validate_path: current = WalkSequence[pos]
WalkStep ==
    /\ op = "path"
    /\ pc = "walk"
    /\ pos <= Len(WalkSequence)
    /\ LET current == WalkSequence[pos]
           period == validate_period(current, now)
           checked == trace \o Steps(pos, <<"validate_period">>)
       IN  IF period # "Ok"
           THEN /\ result' = period
                /\ pc' = "done"
                /\ trace' = checked
                /\ UNCHANGED <<pos, path_len_constraints>>
           ELSE IF pos < Len(WalkSequence)
           THEN LET pair == PairChecks(current, WalkSequence[pos + 1])
                IN  /\ trace' = checked \o Steps(pos, pair.steps)
                    /\ path_len_constraints' = path_len_constraints \o pair.push
                    /\ IF pair.result # "Ok"
                       THEN result' = pair.result /\ pc' = "done" /\ pos' = pos
                       ELSE result' = result /\ pc' = "walk" /\ pos' = pos + 1
           ELSE /\ pc' = "path_len"
                /\ pos' = pos + 1
                /\ trace' = checked
                /\ UNCHANGED <<result, path_len_constraints>>
    /\ UNCHANGED <<op, builder, now, x509, constructed, self_cert, arg_cert, trust_anchor, chain>>

\* step 2 of validate_path, where `path_len_constraints.len() - 1` does not
\* panic: some constraint was recorded, or the build wraps on overflow
PathLenPass ==
    /\ op = "path"
    /\ pc = "path_len"
    /\ result' = PathLenResult(path_len_constraints)
    /\ trace' = trace \o Steps(0, <<"path_len">>)
    /\ pc' = "done"
    /\ UNCHANGED <<op, builder, now, x509, constructed, self_cert, arg_cert, trust_anchor,
                   chain, pos, path_len_constraints>>

\* step 2 in a build with overflow checks (the debug and test profiles): with
\* no constraint recorded, `path_len_constraints.len() - 1` panics
PathLenPanic ==
    /\ op = "path"
    /\ pc = "path_len"
    /\ Len(path_len_constraints) = 0
    /\ result' = "Panic"
    /\ trace' = trace \o Steps(0, <<"path_len">>)
    /\ pc' = "done"
    /\ UNCHANGED <<op, builder, now, x509, constructed, self_cert, arg_cert, trust_anchor,
                   chain, pos, path_len_constraints>>

-----------------------------------------------------------------------------
(* Chains and trust anchors given to validate_path.  Node k of the walk    *)
(* sequence (0 the trust anchor) has name k, serial number k, key pair k   *)
(* and TBS bytes k; a profile says how it deviates from a certificate      *)
(* properly issued by node k - 1.  Path validation runs at time 1.         *)

ValidPeriod == Validity(0, 2)
ExpiredPeriod == Validity(0, 0)
ImmaturePeriod == Validity(2, 2)

\* how the certificates of one chain name their algorithms
Ed25519Scheme ==
    [spki_algorithm |-> AlgorithmIdentifier(ED_25519_OID, None),
     signature_algorithm |-> AlgorithmIdentifier(ED_25519_OID, None),
     key |-> "ed25519", sig |-> "ed25519"]
\* ECDSA with the identifiers verify_signature's match arms name
EcdsaP256Scheme ==
    [spki_algorithm |-> AlgorithmIdentifier(ECDSA_SHA256_OID, None),
     signature_algorithm |-> AlgorithmIdentifier(ECDSA_SHA256_OID, None),
     key |-> "sec1-p256", sig |-> "der-p256"]
EcdsaP384Scheme ==
    [spki_algorithm |-> AlgorithmIdentifier(ECDSA_SHA384_OID, None),
     signature_algorithm |-> AlgorithmIdentifier(ECDSA_SHA384_OID, None),
     key |-> "sec1-p384", sig |-> "der-p384"]
\* ECDSA as certificates in the field carry it (RFC 5480): id-ecPublicKey with
\* the curve in the SPKI, ecdsa-with-SHA256 as signature algorithm
EcdsaRfc5480Scheme ==
    [spki_algorithm |-> AlgorithmIdentifier(ALGORITHM_OID, Some(NistP256_OID)),
     signature_algorithm |-> AlgorithmIdentifier(ECDSA_SHA256_OID, None),
     key |-> "sec1-p256", sig |-> "der-p256"]

\* a name, key or serial number that belongs to no node of the chain
Stranger(k) == k + 10

ProfileExtensions(k, p) ==
    (IF IsSome(p.bc) THEN <<RawExtension("BasicConstraints", TRUE, Unwrap(p.bc))>>
     ELSE << >>)
    \o (IF IsSome(p.ku) THEN <<RawExtension("KeyUsage", TRUE, Unwrap(p.ku))>> ELSE << >>)
    \o (IF p.ski
        THEN <<RawExtension("SubjectKeyIdentifier", FALSE, SubjectKeyIdentifier(k))>>
        ELSE << >>)
    \o (CASE p.aki = "ki-match" ->
               <<RawExtension("AuthorityKeyIdentifier", FALSE,
                              AuthorityKeyIdentifier(Some(k - 1), None))>>
          [] p.aki = "ki-mismatch" ->
               <<RawExtension("AuthorityKeyIdentifier", FALSE,
                              AuthorityKeyIdentifier(Some(Stranger(k)), None))>>
          [] p.aki = "sn-match" ->
               <<RawExtension("AuthorityKeyIdentifier", FALSE,
                              AuthorityKeyIdentifier(None, Some(k - 1)))>>
          [] p.aki = "sn-mismatch" ->
               <<RawExtension("AuthorityKeyIdentifier", FALSE,
                              AuthorityKeyIdentifier(None, Some(Stranger(k))))>>
          [] p.aki = "ki-match-sn-mismatch" ->
               <<RawExtension("AuthorityKeyIdentifier", FALSE,
                              AuthorityKeyIdentifier(Some(k - 1), Some(Stranger(k))))>>
          [] p.aki = "ki-mismatch-sn-match" ->
               <<RawExtension("AuthorityKeyIdentifier", FALSE,
                              AuthorityKeyIdentifier(Some(Stranger(k)), Some(k - 1)))>>
          [] OTHER -> << >>)

\* node k as decoded by Certificate::from_der
NodeCertificate(k, p, scheme) ==
    CertificateTryFrom(
        X509Certificate(k,
                        IF k = 0 THEN 0 ELSE IF p.issuer_ok THEN k - 1 ELSE Stranger(k),
                        k, p.validity, scheme.spki_algorithm, PublicKey(scheme.key, k),
                        scheme.signature_algorithm,
                        SignatureBytes(scheme.sig,
                                       IF k = 0 THEN 0
                                       ELSE IF p.sig = "good" THEN k - 1 ELSE Stranger(k),
                                       k),
                        k, ProfileExtensions(k, p))).value

CaUnconstrained == Some(BasicConstraints(TRUE, None))
CaPathLen0 == Some(BasicConstraints(TRUE, Some(0)))
CaPathLen1 == Some(BasicConstraints(TRUE, Some(1)))
NotCa == Some(BasicConstraints(FALSE, None))
KeyCertSignUsage == Some(KeyUsage({"KeyCertSign", "CRLSign"}))
NoCertSignUsage == Some(KeyUsage({"DigitalSignature"}))

\* families of chains: each lets some fields of every node vary freely
ConstraintFamily ==
    [scheme |-> {Ed25519Scheme},
     validity |-> {ValidPeriod, ExpiredPeriod},
     leaf_validity |-> {ValidPeriod, ImmaturePeriod},
     bc |-> {None, NotCa, CaUnconstrained, CaPathLen0, CaPathLen1},
     leaf_bc |-> {None, CaUnconstrained},
     ku |-> {None, NoCertSignUsage},
     issuer_ok |-> {TRUE}, aki |-> {"none"}, ski |-> {TRUE}, sig |-> {"good"}]
LinkageFamily ==
    [scheme |-> {Ed25519Scheme},
     validity |-> {ValidPeriod},
     leaf_validity |-> {ValidPeriod},
     bc |-> {CaUnconstrained},
     leaf_bc |-> {None},
     ku |-> {KeyCertSignUsage},
     issuer_ok |-> BOOLEAN,
     aki |-> {"none", "ki-match", "ki-mismatch", "sn-match", "sn-mismatch"},
     ski |-> BOOLEAN, sig |-> {"good", "forged"}]
MixedFamily ==
    [scheme |-> {Ed25519Scheme},
     validity |-> {ValidPeriod},
     leaf_validity |-> {ValidPeriod, ExpiredPeriod},
     bc |-> {CaUnconstrained, NotCa},
     leaf_bc |-> {None},
     ku |-> {None, NoCertSignUsage},
     issuer_ok |-> BOOLEAN, aki |-> {"none", "ki-mismatch"}, ski |-> {TRUE},
     sig |-> {"good", "forged"}]
SchemeFamily ==
    [scheme |-> {EcdsaP256Scheme, EcdsaP384Scheme, EcdsaRfc5480Scheme},
     validity |-> {ValidPeriod},
     leaf_validity |-> {ValidPeriod},
     bc |-> {CaUnconstrained},
     leaf_bc |-> {None},
     ku |-> {KeyCertSignUsage},
     issuer_ok |-> {TRUE}, aki |-> {"ki-match"}, ski |-> {TRUE},
     sig |-> {"good", "forged"}]
KeyIdentifierFamily ==
    [scheme |-> {Ed25519Scheme},
     validity |-> {ValidPeriod},
     leaf_validity |-> {ValidPeriod},
     bc |-> {CaUnconstrained},
     leaf_bc |-> {None},
     ku |-> {KeyCertSignUsage},
     issuer_ok |-> {TRUE},
     aki |-> {"none", "ki-match", "ki-mismatch", "sn-match", "sn-mismatch",
              "ki-match-sn-mismatch", "ki-mismatch-sn-match"},
     ski |-> BOOLEAN, sig |-> {"good"}]
Families ==
    {ConstraintFamily, LinkageFamily, MixedFamily, SchemeFamily, KeyIdentifierFamily}

\* validate_path reads neither the issuer, the authority key identifier nor
\* the signature of the trust anchor ...
AnchorProfiles(f) ==
    [validity : f.validity, bc : f.bc, ku : f.ku, ski : f.ski,
     issuer_ok : {TRUE}, aki : {"none"}, sig : {"good"}]
IntermediateProfiles(f) ==
    [validity : f.validity, bc : f.bc, ku : f.ku, ski : f.ski,
     issuer_ok : f.issuer_ok, aki : f.aki, sig : f.sig]
\* ... and neither the key usage, the subject key identifier nor the key of the leaf
LeafProfiles(f) ==
    [validity : f.leaf_validity, bc : f.leaf_bc, ku : {None}, ski : {FALSE},
     issuer_ok : f.issuer_ok, aki : f.aki, sig : f.sig]

InitPath ==
    /\ op = "path"
    /\ pc = "walk"
    /\ now = 1
    /\ \E f \in Families, n \in 0..MaxIntermediates :
       \E s \in f.scheme, a \in AnchorProfiles(f), l \in LeafProfiles(f),
          m \in [1..n -> IntermediateProfiles(f)] :
          /\ trust_anchor = NodeCertificate(0, a, s)
          /\ chain = [intermediates |-> [k \in 1..n |-> NodeCertificate(k, m[k], s)],
                      leaf |-> NodeCertificate(n + 1, l, s)]
    /\ pos = 1
    /\ path_len_constraints = << >>
    /\ result = "none"
    /\ trace = << >>
    /\ x509 = TemplateX509
    /\ constructed = NotConstructed
    /\ self_cert = TemplateCertificate
    /\ arg_cert = TemplateCertificate
    /\ builder = NewBuilder

NextPath == WalkStep \/ PathLenPass \/ PathLenPanic
SpecPath == InitPath /\ [][NextPath]_vars

-----------------------------------------------------------------------------
(* Chain-level period validation (certificate/validate.rs).  A check is    *)
(* logged with the position of its certificate in the chain's iteration:   *)
(* the intermediates 1..n, the leaf n + 1.                                 *)

\* try_for_each over the intermediates from position k on: stops at the
\* first certificate whose period check fails
RECURSIVE TryForEachPeriod(_, _, _)
TryForEachPeriod(certs, k, t) ==
    IF k > Len(certs) THEN [result |-> "Ok", steps |-> << >>]
    ELSE LET r == validate_period(certs[k], t)
             here == <<[step |-> "validate_period", node |-> k]>>
         IN  IF r # "Ok" THEN [result |-> r, steps |-> here]
             ELSE LET rest == TryForEachPeriod(certs, k + 1, t)
                  IN  [result |-> rest.result, steps |-> here \o rest.steps]

\* chain-level validation that goes on to the intermediates after the leaf failed
ChainValidatePeriodGoesOn(self, t) ==
    LET leaf == validate_period(self.leaf, t)
        rest == TryForEachPeriod(self.intermediates, 1, t)
        here == <<[step |-> "validate_period", node |-> Len(self.intermediates) + 1]>>
    IN  [result |-> IF leaf # "Ok" THEN leaf ELSE rest.result,
         steps |-> here \o rest.steps]

\* CertificateChain::validate_period: the leaf, then the intermediates
ChainValidatePeriod(self, t) ==
    LET leaf == validate_period(self.leaf, t)
        here == <<[step |-> "validate_period", node |-> Len(self.intermediates) + 1]>>
    IN  IF leaf # "Ok" THEN [result |-> leaf, steps |-> here]
        ELSE LET rest == TryForEachPeriod(self.intermediates, 1, t)
             IN  [result |-> rest.result, steps |-> here \o rest.steps]

\* certificate k of a chain, with the given validity
PeriodCertificate(k, validity) ==
    CertificateTryFrom([TemplateX509 EXCEPT !.subject = k, !.serial_number = k,
                                            !.validity = validity]).value
\* the validity periods over the model's instants
Validities == {Validity(nb, na) : nb \in 0..MaxTime, na \in 0..MaxTime}

\* the trust anchor is no argument of the chain-level validation
InitChainPeriod ==
    /\ op = "chain_period"
    /\ pc = "start"
    /\ now \in 0..MaxTime
    /\ \E n \in 0..MaxIntermediates :
       \E l \in Validities, m \in [1..n -> Validities] :
          chain = CertificateChainNew([k \in 1..n |-> PeriodCertificate(k, m[k])],
                                      PeriodCertificate(n + 1, l))
    /\ trust_anchor = TemplateCertificate
    /\ pos = 0
    /\ path_len_constraints = << >>
    /\ result = "none"
    /\ trace = << >>
    /\ x509 = TemplateX509
    /\ constructed = NotConstructed
    /\ self_cert = TemplateCertificate
    /\ arg_cert = TemplateCertificate
    /\ builder = NewBuilder

\* chain.validate_period()
ValidateChainPeriod ==
    /\ op = "chain_period"
    /\ pc = "start"
    /\ result' = ChainValidatePeriod(chain, now).result
    /\ trace' = ChainValidatePeriod(chain, now).steps
    /\ pc' = "done"
    /\ UNCHANGED <<op, builder, now, x509, constructed, self_cert, arg_cert, trust_anchor,
                   chain, pos, path_len_constraints>>

\* the two validations of a chain: validate_period and validate_path
InitChain == InitChainPeriod \/ InitPath
NextChain == ValidateChainPeriod \/ NextPath
SpecChain == InitChain /\ [][NextChain]_vars

-----------------------------------------------------------------------------
(* The staged chain builder (certificate/mod.rs).  A call is logged in     *)
(* `trace` with the certificates it was given.                             *)

\* largest number of certificates given to one builder call
MaxBatch == 2
\* largest number of add_intermediates calls on one builder
MaxAdds == 2

\* two distinct certificates a caller may hand to the builder
BuilderCertificates ==
    {NodeCertificate(1, [validity |-> ValidPeriod, bc |-> CaUnconstrained,
                         ku |-> KeyCertSignUsage, ski |-> TRUE, issuer_ok |-> TRUE,
                         aki |-> "ki-match", sig |-> "good"], Ed25519Scheme),
     NodeCertificate(2, [validity |-> ValidPeriod, bc |-> None, ku |-> None,
                         ski |-> FALSE, issuer_ok |-> TRUE, aki |-> "ki-match",
                         sig |-> "good"], Ed25519Scheme)}

\* a builder call as a trace entry
Call(name, certs) == <<[step |-> name, node |-> certs]>>
\* the add_intermediates calls made so far
Adds == Cardinality({j \in 1..Len(trace) : trace[j].step = "add_intermediates"})

InitBuilder ==
    /\ op = "build"
    /\ pc = "building"
    /\ builder = NewBuilder
    /\ chain = TemplateChain
    /\ result = "none"
    /\ trace = << >>
    /\ now = 0
    /\ pos = 0
    /\ path_len_constraints = << >>
    /\ trust_anchor = TemplateCertificate
    /\ x509 = TemplateX509
    /\ constructed = NotConstructed
    /\ self_cert = TemplateCertificate
    /\ arg_cert = TemplateCertificate

SetLeaf ==
    /\ op = "build"
    /\ builder.state = "WantsLeaf"
    /\ \E cert \in BuilderCertificates :
          /\ builder' = set_leaf(builder, cert)
          /\ trace' = trace \o Call("set_leaf", <<cert>>)
    /\ UNCHANGED <<op, pc, now, x509, constructed, self_cert, arg_cert, trust_anchor,
                   chain, pos, path_len_constraints, result>>

SetIntermediates ==
    /\ op = "build"
    /\ builder.state = "WantsIntermediates"
    /\ \E certs \in SeqsUpTo(BuilderCertificates, MaxBatch) :
          /\ builder' = set_intermediates(builder, certs)
          /\ trace' = trace \o Call("set_intermediates", certs)
    /\ UNCHANGED <<op, pc, now, x509, constructed, self_cert, arg_cert, trust_anchor,
                   chain, pos, path_len_constraints, result>>

AddIntermediates ==
    /\ op = "build"
    /\ builder.state = "Optional"
    /\ Adds < MaxAdds
    /\ \E certs \in SeqsUpTo(BuilderCertificates, MaxBatch) :
          /\ builder' = add_intermediates(builder, certs)
          /\ trace' = trace \o Call("add_intermediates", certs)
    /\ UNCHANGED <<op, pc, now, x509, constructed, self_cert, arg_cert, trust_anchor,
                   chain, pos, path_len_constraints, result>>

\* build takes the builder by value: nothing can be called on it afterwards
Build ==
    /\ op = "build"
    /\ builder.state = "Optional"
    /\ chain' = build(builder).chain
    /\ result' = build(builder).result
    /\ builder' = [builder EXCEPT !.state = "Moved"]
    /\ trace' = trace \o Call("build", << >>)
    /\ pc' = "done"
    /\ UNCHANGED <<op, now, x509, constructed, self_cert, arg_cert, trust_anchor,
                   pos, path_len_constraints>>

NextBuilder == SetLeaf \/ SetIntermediates \/ AddIntermediates \/ Build
SpecBuilder == InitBuilder /\ [][NextBuilder]_vars

-----------------------------------------------------------------------------
(* Claims about certificate construction (SpecConstruct).                  *)

Constructing == op = "construct" /\ pc = "done"
RawCount == Len(x509.extensions)
Recognized(i) == x509.extensions[i].extn_id \in RecognizedOIDs
\* entry i is of a recognized kind and its payload does not decode
DecodeFails(i) ==
    /\ Recognized(i)
    /\ x509.extensions[i].extn_value.kind # x509.extensions[i].extn_id
UnsupportedCritical(i) == ~Recognized(i) /\ x509.extensions[i].critical

\* C6: whenever the payload of a recognized extension fails to decode,
\* construction is aborted with an error, whether the extension is critical
\* or not.
C6_DecodeFailureAlwaysFatal ==
    Constructing =>
        ((\E i \in 1..RawCount : DecodeFails(i)) => ~constructed.ok)

\* the payloads of the recognized entries of a raw list, in order
RECURSIVE RecognizedPayloads(_)
RecognizedPayloads(exts) ==
    IF exts = << >> THEN << >>
    ELSE IF Head(exts).extn_id \in RecognizedOIDs
         THEN <<Head(exts).extn_value>> \o RecognizedPayloads(Tail(exts))
         ELSE RecognizedPayloads(Tail(exts))

\* a getter's answer is the entry of its kind with the least index, or absent
FirstOfKind(getter, kind) ==
    LET exts == constructed.value.parsed_extensions
        idx == {i \in 1..Len(exts) : exts[i].kind = kind}
    IN  IF idx = {} THEN getter = None
        ELSE \E i \in idx : (\A j \in idx : i <= j) /\ getter = Some(exts[i])

\* C7: a critical extension with an unrecognized OID aborts construction
\* (with UnsupportedExtension carrying its OID when nothing before it is
\* fatal); on success parsed_extensions holds exactly the recognized
\* extensions in their original order, duplicates kept, and every typed
\* getter returns the first entry of its kind or absent.
C7_UnrecognizedHandlingAndOrder ==
    Constructing =>
        /\ \A i \in 1..RawCount :
              UnsupportedCritical(i) =>
                 /\ ~constructed.ok
                 /\ (\A j \in 1..(i - 1) : ~DecodeFails(j) /\ ~UnsupportedCritical(j))
                        => constructed.error =
                              UnsupportedExtension(x509.extensions[i].extn_id)
        /\ constructed.ok =>
              /\ constructed.value.parsed_extensions =
                    RecognizedPayloads(x509.extensions)
              /\ FirstOfKind(get_basic_constraints(constructed.value), "BasicConstraints")
              /\ FirstOfKind(get_key_usage(constructed.value), "KeyUsage")
              /\ FirstOfKind(get_extended_key_usage(constructed.value),
                             "ExtendedKeyUsage")
              /\ FirstOfKind(get_subject_alt_name(constructed.value), "SubjectAltName")
              /\ FirstOfKind(get_authority_key_identifier(constructed.value),
                             "AuthorityKeyIdentifier")
              /\ FirstOfKind(get_subject_key_identifier(constructed.value),
                             "SubjectKeyIdentifier")
              /\ FirstOfKind(get_certificate_policies(constructed.value),
                             "CertificatePolicies")

-----------------------------------------------------------------------------
(* Claims about Certificate::validate_period (SpecPeriod).                 *)

PeriodDone == op = "period" /\ pc = "done"

\* C8: validate_period fails with CertificateImmature when now < notBefore,
\* otherwise with CertificateExpired when now > notAfter, and succeeds
\* otherwise, the boundaries now = notBefore and now = notAfter included.
C8_ValidatePeriod ==
    PeriodDone =>
        LET v == self_cert.inner.validity
        IN  /\ now < v.not_before => result = "CertificateImmature"
            /\ (now >= v.not_before /\ now > v.not_after)
                  => result = "CertificateExpired"
            /\ (v.not_before <= now /\ now <= v.not_after) => result = "Ok"

\* a certificate checked at the very instant of its notAfter is accepted
C8_Witness ==
    /\ PeriodDone
    /\ now = self_cert.inner.validity.not_after
    /\ self_cert.inner.validity.not_before < now
    /\ result = "Ok"

-----------------------------------------------------------------------------
(* Claims about Certificate::verify_signature (SpecVerify).                *)

VerifyDone == op = "verify" /\ pc = "done"
IssuerAlgorithm == self_cert.inner.subject_public_key_info.algorithm
IssuerKey == self_cert.inner.subject_public_key_info.subject_public_key
CryptoSteps == {"extract_key", "encode_tbs", "decode_signature", "verify"}

\* C9: when the issuer's SPKI algorithm identifier differs from the subject's
\* signature-algorithm identifier, verify_signature fails with
\* AlgorithmMismatch and has performed no key extraction, signature decoding
\* or verification step.
C9_AlgorithmMismatchFirst ==
    (VerifyDone /\ IssuerAlgorithm # arg_cert.inner.signature_algorithm) =>
        /\ result = "AlgorithmMismatch"
        /\ \A i \in 1..Len(trace) : trace[i].step \notin CryptoSteps

\* the two identifiers name the same algorithm and differ in their parameters
C9_Witness ==
    /\ VerifyDone
    /\ IssuerAlgorithm.oid = arg_cert.inner.signature_algorithm.oid
    /\ IssuerAlgorithm.parameters # arg_cert.inner.signature_algorithm.parameters
    /\ result = "AlgorithmMismatch"

\* the supported schemes: algorithm OID, key encoding, signature encoding
Schemes ==
    {[oid |-> ED_25519_OID, key |-> "ed25519", sig |-> "ed25519"],
     [oid |-> ECDSA_SHA256_OID, key |-> "sec1-p256", sig |-> "der-p256"],
     [oid |-> ECDSA_SHA384_OID, key |-> "sec1-p384", sig |-> "der-p384"]}

\* issuer and subject agree on scheme s, key and signature are well formed
\* and the signature is the issuer key's over the subject's TBS bytes
ValidUnder(s, issuer, subject) ==
    /\ issuer.inner.subject_public_key_info.algorithm = subject.inner.signature_algorithm
    /\ subject.inner.signature_algorithm.oid = s.oid
    /\ issuer.inner.subject_public_key_info.subject_public_key.encoding = s.key
    /\ subject.inner.signature.encoding = s.sig
    /\ subject.inner.signature.signer =
          issuer.inner.subject_public_key_info.subject_public_key.id
    /\ subject.inner.signature.message = subject.inner.tbs_der

\* C10: for each supported scheme, a well-formed valid signature under
\* matching algorithm identifiers is accepted, and the outcome does not
\* depend on anything of the issuer but its SPKI (in particular not on the
\* issuer's own signature algorithm).
C10_SupportedSchemesVerify ==
    VerifyDone =>
        /\ \A s \in Schemes : ValidUnder(s, self_cert, arg_cert) => result = "Ok"
        /\ \A a \in VerifyAlgorithms :
              verify_signature([self_cert EXCEPT !.inner.signature_algorithm = a],
                               arg_cert).result = result

-----------------------------------------------------------------------------
(* Claims about CertificateChain::validate_path (SpecPath).                *)

PathDone == op = "path" /\ pc = "done"
Nodes == Len(WalkSequence)
\* the issuer-role nodes: the trust anchor and the intermediates
IssuerNodes == 1..(Nodes - 1)
Node(i) == WalkSequence[i]
\* the run reached the named check of node i: nothing before it failed
Reached(step, i) == \E j \in 1..Len(trace) : trace[j] = [step |-> step, node |-> i]
\* the walk completed and the final pass ran
WalkCompleted == Reached("path_len", 0)

\* a CA certificate: BasicConstraints present with ca = true
IsCa(cert) ==
    \E i \in 1..Len(cert.parsed_extensions) :
        /\ cert.parsed_extensions[i].kind = "BasicConstraints"
        /\ \A j \in 1..(i - 1) : cert.parsed_extensions[j].kind # "BasicConstraints"
        /\ cert.parsed_extensions[i].ca

\* C1: an issuer-role node without BasicConstraints, or with ca = false,
\* whose basic-constraints check is reached makes validation fail with
\* BasicConstraintsViolation; a chain with such a node is never accepted.
C1_NonCaIssuerRejected ==
    PathDone =>
        /\ \A i \in IssuerNodes :
              (Reached("basic_constraints", i) /\ ~IsCa(Node(i)))
                  => result = "BasicConstraintsViolation"
        /\ result = "Ok" => \A i \in IssuerNodes : IsCa(Node(i))

\* the pathLenConstraint node i declares, as an Option
DeclaredPathLen(i) ==
    LET bc == get_basic_constraints(Node(i))
    IN  IF IsSome(bc) THEN Unwrap(bc).path_len_constraint ELSE None
\* the number of CA certificates among the nodes S
CaCount(S) == Cardinality({j \in S : IsCa(Node(j))})

\* C2 as stated: after a completed walk, validation fails with
\* BasicConstraintsViolation exactly when some node declared a
\* pathLenConstraint smaller than the number of CA certificates strictly
\* following it in the sequence, the leaf counted when it is a CA.
C2_PathLenCountsLeaf ==
    (PathDone /\ WalkCompleted) =>
        (result = "BasicConstraintsViolation"
            <=> \E i \in 1..Nodes :
                   /\ IsSome(DeclaredPathLen(i))
                   /\ CaCount((i + 1)..Nodes) > Unwrap(DeclaredPathLen(i)))

\* C2 amended: after a completed walk, validation fails with
\* BasicConstraintsViolation exactly when some node declared a
\* pathLenConstraint smaller than the number of CA certificates strictly
\* between it and the leaf; the leaf is not counted, CA or not.
C2_PathLenExcludesLeaf ==
    (PathDone /\ WalkCompleted) =>
        (result = "BasicConstraintsViolation"
            <=> \E i \in 1..Nodes :
                   /\ IsSome(DeclaredPathLen(i))
                   /\ CaCount((i + 1)..(Nodes - 1)) > Unwrap(DeclaredPathLen(i)))

\* the trust anchor allows no CA below it and an intermediate CA follows
C2_Witness ==
    /\ PathDone
    /\ WalkCompleted
    /\ DeclaredPathLen(1) = Some(0)
    /\ Nodes = 3
    /\ IsCa(Node(2))
    /\ result = "BasicConstraintsViolation"

\* C3: a pair whose issuer-role subject name differs from the next node's
\* issuer name, reached with no earlier failure, makes validation fail with
\* IssuerSubjectMismatch; a chain with such a pair is never accepted.
C3_NameMismatchRejected ==
    PathDone =>
        /\ \A i \in IssuerNodes :
              (Reached("name_linkage", i)
                  /\ Node(i).inner.subject # Node(i + 1).inner.issuer)
                  => result = "IssuerSubjectMismatch"
        /\ result = "Ok" =>
              \A i \in IssuerNodes : Node(i).inner.subject = Node(i + 1).inner.issuer

\* the leaf names an issuer other than the intermediate before it
C3_Witness ==
    /\ PathDone
    /\ Nodes = 3
    /\ Reached("name_linkage", 2)
    /\ Node(2).inner.subject # Node(3).inner.issuer
    /\ result = "IssuerSubjectMismatch"

\* the signature on `subject` was made by the key pair of `issuer` over the
\* subject's to-be-signed bytes
SignedBy(issuer, subject) ==
    /\ subject.inner.signature.signer =
          issuer.inner.subject_public_key_info.subject_public_key.id
    /\ subject.inner.signature.message = subject.inner.tbs_der

\* C4: validation succeeds only if in every adjacent pair the issuer's key
\* verifies the subject's signature; a chain with a pair whose signature
\* does not verify ends in an error.
C4_SuccessNeedsEverySignature ==
    PathDone =>
        /\ result = "Ok" => \A i \in IssuerNodes : SignedBy(Node(i), Node(i + 1))
        /\ (\E i \in IssuerNodes : ~SignedBy(Node(i), Node(i + 1)))
              => result \notin {"Ok", "Panic", "none"}

\* only the leaf's signature is wrong: made by a key other than the intermediate's
C4_Witness ==
    /\ PathDone
    /\ Nodes = 3
    /\ SignedBy(Node(1), Node(2))
    /\ ~SignedBy(Node(2), Node(3))
    /\ Reached("verify", 2)
    /\ result = SignatureError

\* node i is inside its validity period
InPeriod(i) ==
    /\ Node(i).inner.validity.not_before <= now
    /\ now <= Node(i).inner.validity.not_after
\* node i carries no KeyUsage, or one with keyCertSign
MaySign(i) ==
    \A j \in 1..Len(Node(i).parsed_extensions) :
        Node(i).parsed_extensions[j].kind = "KeyUsage"
            => "KeyCertSign" \in Node(i).parsed_extensions[j].bits
\* the key-identifier data of the pair (i, i + 1) agree where present
KeyIdentifiersAgree(i) ==
    \A a \in 1..Len(Node(i + 1).parsed_extensions) :
        LET aki == Node(i + 1).parsed_extensions[a]
        IN  aki.kind = "AuthorityKeyIdentifier" =>
              /\ IsSome(aki.authority_cert_serial_number) =>
                    Unwrap(aki.authority_cert_serial_number) = Node(i).inner.serial_number
              /\ IsSome(aki.key_identifier) =>
                    \A b \in 1..Len(Node(i).parsed_extensions) :
                        Node(i).parsed_extensions[b].kind = "SubjectKeyIdentifier"
                            => Node(i).parsed_extensions[b].id =
                                  Unwrap(aki.key_identifier)
\* a chain of a supported scheme that satisfies every rule of the walk
ValidChain ==
    /\ \A i \in 1..Nodes : InPeriod(i)
    /\ \A i \in IssuerNodes :
          /\ IsCa(Node(i))
          /\ MaySign(i)
          /\ Node(i).inner.subject = Node(i + 1).inner.issuer
          /\ KeyIdentifiersAgree(i)
          /\ \E s \in Schemes :
                /\ Node(i).inner.subject_public_key_info.subject_public_key.encoding = s.key
                /\ Node(i + 1).inner.signature.encoding = s.sig
                /\ Node(i + 1).inner.signature_algorithm.oid = s.oid
          /\ SignedBy(Node(i), Node(i + 1))
    /\ \A i \in 1..Nodes :
          IsSome(DeclaredPathLen(i)) =>
              CaCount((i + 1)..Nodes) <= Unwrap(DeclaredPathLen(i))

\* C5: every valid chain is accepted.
C5_ValidChainAccepted ==
    (PathDone /\ ValidChain) => result = "Ok"

\* node i carries a KeyUsage extension without the keyCertSign bit
LacksKeyCertSign(i) ==
    LET ku == get_key_usage(Node(i))
    IN  IsSome(ku) /\ "KeyCertSign" \notin Unwrap(ku).bits

\* C11: an issuer-role node whose key-usage check is reached and whose
\* KeyUsage lacks keyCertSign makes validation fail with KeyUsageViolation;
\* an issuer-role node without KeyUsage passes the step: control goes on to
\* the name linkage of the pair, and KeyUsageViolation is reported only when
\* some node carries a KeyUsage without the bit.
C11_KeyUsageRequiresCertSign ==
    PathDone =>
        /\ \A i \in IssuerNodes :
              Reached("key_usage", i) =>
                  /\ LacksKeyCertSign(i) =>
                        (result = "KeyUsageViolation" /\ ~Reached("name_linkage", i))
                  /\ ~IsSome(get_key_usage(Node(i))) => Reached("name_linkage", i)
        /\ result = "KeyUsageViolation" => \E i \in IssuerNodes : LacksKeyCertSign(i)

\* the trust anchor carries no KeyUsage and passes; the intermediate carries
\* one without keyCertSign
C11_Witness ==
    /\ PathDone
    /\ Nodes = 3
    /\ ~IsSome(get_key_usage(Node(1)))
    /\ Reached("name_linkage", 1)
    /\ Reached("key_usage", 2)
    /\ LacksKeyCertSign(2)
    /\ result = "KeyUsageViolation"

\* next's AuthorityKeyIdentifier names a key identifier, node i carries a
\* SubjectKeyIdentifier, and the two differ
KeyIdentifierDiffers(i) ==
    LET aki == get_authority_key_identifier(Node(i + 1))
        ski == get_subject_key_identifier(Node(i))
    IN  /\ IsSome(aki)
        /\ IsSome(ski)
        /\ IsSome(Unwrap(aki).key_identifier)
        /\ Unwrap(Unwrap(aki).key_identifier) # Unwrap(ski).id
\* next's AuthorityKeyIdentifier names a serial number other than node i's
SerialNumberDiffers(i) ==
    LET aki == get_authority_key_identifier(Node(i + 1))
    IN  /\ IsSome(aki)
        /\ IsSome(Unwrap(aki).authority_cert_serial_number)
        /\ Unwrap(Unwrap(aki).authority_cert_serial_number) # Node(i).inner.serial_number

\* C12: for every pair whose key-identifier check is reached,
\* AuthorityKeyIdentifierMismatch is raised if the key identifiers are both
\* present and differ, and independently if the authority-cert-serial-number
\* is present and differs from the issuer's serial number; when neither
\* holds (no AuthorityKeyIdentifier, or a needed field missing on either
\* side) the step raises no error and control goes on to the signature.
C12_KeyIdentifierLinkage ==
    PathDone =>
        /\ \A i \in IssuerNodes :
              Reached("key_identifier", i) =>
                  IF KeyIdentifierDiffers(i) \/ SerialNumberDiffers(i)
                  THEN /\ result = "AuthorityKeyIdentifierMismatch"
                       /\ ~Reached("compare_algorithm", i)
                  ELSE Reached("compare_algorithm", i)
        /\ result = "AuthorityKeyIdentifierMismatch" =>
              \E i \in IssuerNodes : KeyIdentifierDiffers(i) \/ SerialNumberDiffers(i)

\* the intermediate names a foreign key identifier but the trust anchor has
\* no SubjectKeyIdentifier: skipped; the leaf names the intermediate's key
\* identifier and a foreign serial number: rejected
C12_Witness ==
    /\ PathDone
    /\ Nodes = 3
    /\ ~IsSome(get_subject_key_identifier(Node(1)))
    /\ IsSome(get_authority_key_identifier(Node(2)))
    /\ Unwrap(get_authority_key_identifier(Node(2))).key_identifier = Some(Stranger(1))
    /\ Reached("compare_algorithm", 1)
    /\ Reached("key_identifier", 2)
    /\ ~KeyIdentifierDiffers(2)
    /\ IsSome(get_subject_key_identifier(Node(2)))
    /\ SerialNumberDiffers(2)
    /\ result = "AuthorityKeyIdentifierMismatch"

-----------------------------------------------------------------------------
(* Claims about the chain builder (SpecBuilder).                           *)

Built == op = "build" /\ pc = "done"
\* the names of the builder calls made so far, in order
CallNames == [j \in 1..Len(trace) |-> trace[j].step]
\* the certificates given to the calls from..to, one after the other
RECURSIVE GivenTo(_, _)
GivenTo(from, to) ==
    IF from > to THEN << >> ELSE trace[from].node \o GivenTo(from + 1, to)

\* C13: a call sequence that reaches build is set_leaf, set_intermediates,
\* zero or more add_intermediates, build; build returns Ok; the chain holds
\* the leaf given to set_leaf and, as intermediates, the certificates given
\* to set_intermediates and to each add_intermediates in call order;
\* iterating it yields those intermediates and then the leaf, each once.
\* Before build no chain exists.
C13_BuilderShapeAndContent ==
    op = "build" =>
        /\ ~Built => (chain = TemplateChain /\ result = "none")
        /\ Built =>
              /\ Len(trace) >= 3
              /\ CallNames[1] = "set_leaf"
              /\ CallNames[2] = "set_intermediates"
              /\ \A j \in 3..(Len(trace) - 1) : CallNames[j] = "add_intermediates"
              /\ CallNames[Len(trace)] = "build"
              /\ result = "Ok"
              /\ chain.leaf = trace[1].node[1]
              /\ chain.intermediates = GivenTo(2, Len(trace) - 1)
              /\ ChainIter(chain) = GivenTo(2, Len(trace) - 1) \o trace[1].node
              /\ Len(ChainIter(chain)) = Len(chain.intermediates) + 1

\* two add_intermediates calls after set_intermediates, with certificates
\* that tell the order apart
C13_Witness ==
    /\ Built
    /\ Len(trace) = 5
    /\ Len(trace[2].node) = 1
    /\ Len(trace[3].node) = 2
    /\ trace[3].node[1] # trace[3].node[2]
    /\ trace[2].node[1] # trace[3].node[1]
    /\ Len(trace[4].node) = 1
    /\ trace[4].node[1] # trace[3].node[2]
    /\ Len(chain.intermediates) = 4

-----------------------------------------------------------------------------
(* Further claims about path validation (SpecPath).                        *)

\* C14: validate_path ends in success or a typed error: when the final pass
\* starts, at least one constraint was recorded, so that the count minus one
\* does not underflow, and no run ends in a panic.
C14_NoUnderflowOrPanic ==
    /\ (op = "path" /\ pc = "path_len") => Len(path_len_constraints) >= 1
    /\ PathDone => result # "Panic"

\* the checks of the walk, by the step that starts each of them
CheckSteps ==
    {"validate_period", "basic_constraints", "key_usage", "name_linkage",
     "key_identifier", "compare_algorithm", "path_len"}
\* the checks of node i in the claimed order: its period, then, for an
\* issuer-role node, the five checks of the pair (i, i + 1)
RECURSIVE ChecksFrom(_)
ChecksFrom(i) ==
    IF i > Nodes THEN Steps(0, <<"path_len">>)
    ELSE IF i = Nodes THEN Steps(i, <<"validate_period">>) \o ChecksFrom(i + 1)
    ELSE Steps(i, <<"validate_period", "basic_constraints", "key_usage",
                    "name_linkage", "key_identifier", "compare_algorithm">>)
         \o ChecksFrom(i + 1)
\* the checks the run performed, in the order it performed them
ChecksPerformed == SelectSeq(trace, LAMBDA e : e.step \in CheckSteps)
\* the run performed an initial part of the claimed order, nothing else
ChecksInWalkOrder ==
    /\ Len(ChecksPerformed) <= Len(ChecksFrom(1))
    /\ ChecksPerformed = SubSeq(ChecksFrom(1), 1, Len(ChecksPerformed))

\* what the signature check of a pair may report
SignatureCheckErrors ==
    {"AlgorithmMismatch", "AlgorithmUnsupported", OidUnknownError,
     ParametersMissingError, KeyMalformedError, SignatureError}
ErrorClass(r) == IF r \in SignatureCheckErrors THEN "SignatureCheck" ELSE r

\* the first rule node i violates, in the order of the rules, or "Ok"
NodeViolation(i) ==
    IF now < Node(i).inner.validity.not_before THEN "CertificateImmature"
    ELSE IF now > Node(i).inner.validity.not_after THEN "CertificateExpired"
    ELSE IF i = Nodes THEN "Ok"
    ELSE IF ~IsCa(Node(i)) THEN "BasicConstraintsViolation"
    ELSE IF LacksKeyCertSign(i) THEN "KeyUsageViolation"
    ELSE IF Node(i).inner.subject # Node(i + 1).inner.issuer THEN "IssuerSubjectMismatch"
    ELSE IF KeyIdentifierDiffers(i) \/ SerialNumberDiffers(i)
         THEN "AuthorityKeyIdentifierMismatch"
    ELSE IF ~\E sch \in Schemes : ValidUnder(sch, Node(i), Node(i + 1))
         THEN "SignatureCheck"
    ELSE "Ok"
\* the earliest violation of the chain in walk order, the path-length rule last
FirstViolation ==
    IF \E i \in 1..Nodes : NodeViolation(i) # "Ok"
    THEN NodeViolation(CHOOSE i \in 1..Nodes :
                          /\ NodeViolation(i) # "Ok"
                          /\ \A j \in 1..(i - 1) : NodeViolation(j) = "Ok")
    ELSE IF \E i \in 1..Nodes :
               /\ IsSome(DeclaredPathLen(i))
               /\ CaCount((i + 1)..Nodes) > Unwrap(DeclaredPathLen(i))
    THEN "BasicConstraintsViolation"
    ELSE "Ok"

\* C15: the run performs the checks in walk order (per node its period,
\* then basic constraints, key usage, name linkage, key-identifier linkage
\* and signature of the pair, the path-length pass last) and stops at the
\* first that fails; the outcome is the error of the earliest violated rule
\* in that order, and success when no rule is violated.
C15_FirstViolationReported ==
    PathDone =>
        /\ ChecksInWalkOrder
        /\ ErrorClass(result) = FirstViolation

-----------------------------------------------------------------------------
(* Claims about the period checks of a chain (SpecChain).                  *)

ChainPeriodDone == op = "chain_period" /\ pc = "done"
\* how often the run checked the period of node i
PeriodChecks(i) ==
    Cardinality({j \in 1..Len(trace) :
                    trace[j] = [step |-> "validate_period", node |-> i]})
\* the certificates of the chain in the order validate_period takes them:
\* the leaf, then the intermediates
PeriodOrder == <<Len(chain.intermediates) + 1>> \o [k \in 1..Len(chain.intermediates) |-> k]
\* certificate k of the chain's iteration is inside its validity period
ChainInPeriod(k) ==
    LET v == ChainIter(chain)[k].inner.validity
    IN  v.not_before <= now /\ now <= v.not_after

\* C16: a validate_path run that returns success checked the period of
\* every node of the walk sequence exactly once, the leaf included; a run
\* that fails checked no node twice.  Chain-level validate_period checks
\* the leaf, then the intermediates in order, up to and including the first
\* certificate outside its period, whose error it returns; it succeeds when
\* there is none; the trust anchor is not checked.
C16_PeriodCheckedOncePerNode ==
    /\ PathDone =>
          /\ \A i \in 1..Nodes : PeriodChecks(i) <= 1
          /\ result = "Ok" => \A i \in 1..Nodes : PeriodChecks(i) = 1
    /\ ChainPeriodDone =>
          LET failing == {j \in 1..Len(PeriodOrder) : ~ChainInPeriod(PeriodOrder[j])}
              stop == IF failing = {} THEN Len(PeriodOrder)
                      ELSE CHOOSE j \in failing : \A h \in failing : j <= h
          IN  /\ trace = [j \in 1..stop |->
                            [step |-> "validate_period", node |-> PeriodOrder[j]]]
              /\ result = "Ok" <=> failing = {}
              /\ failing # {} =>
                    result = validate_period(ChainIter(chain)[PeriodOrder[stop]], now)
              /\ \A j \in 1..Len(trace) : trace[j].node \in 1..Len(ChainIter(chain))

\* an accepted chain of three nodes: trust anchor, intermediate and leaf
\* each had their period checked once
C16_Witness ==
    /\ PathDone
    /\ result = "Ok"
    /\ Nodes = 3
    /\ \A i \in 1..3 : PeriodChecks(i) = 1

\* chain-level: the leaf is in its period, the intermediate is not, and
\* the trust anchor, which has expired, plays no part
C16_ChainLevelWitness ==
    /\ ChainPeriodDone
    /\ Len(chain.intermediates) = 1
    /\ ChainInPeriod(2)
    /\ ~ChainInPeriod(1)
    /\ now > trust_anchor.inner.validity.not_after
    /\ Len(trace) = 2
    /\ result = "CertificateImmature"

=============================================================================
